---------------------------- MODULE Spec2Model ----------------------------
(***************************************************************************)
(* Model of src/src/orchestration.py: the agent graph (critic, basic,      *)
(* assumption, conceptual and triage agents with their tools and           *)
(* handoffs) and the driver main(), which runs every question of the       *)
(* batch through Runner.run starting at the triage agent and then inspects *)
(* the result.                                                             *)
(*                                                                         *)
(* Runner.run is the agent loop the driver calls at line 543.  One loop    *)
(* iteration ("turn") invokes the language model for the current agent;    *)
(* the model's response, which the program does not control, is one of:    *)
(*   - a plain message: the run ends, the message is final_output;         *)
(*   - a call of one of the agent's handoffs: the target becomes the       *)
(*     current agent of the same run;                                      *)
(*   - a call of an agent-as-tool (consult_*_specialist): a nested         *)
(*     Runner.run of that specialist, whose output is returned to the      *)
(*     caller, which then takes another turn; the tool calls of one        *)
(*     response run concurrently;                                          *)
(*   - a call of a name the agent was not given: the run raises.           *)
(* The hosted tools of the agent (file search, web search) are executed    *)
(* inside the model's response; only the tools in the agent's tools list   *)
(* are offered.  A nested run keeps its own history: the calling run       *)
(* receives its output only.                                               *)
(***************************************************************************)
EXTENDS Integers, Sequences, FiniteSets

\* Number of questions in the driver's list (lines 522-530).
NumQuestions == 2

\* Turn limit of one Runner.run (the loop raises when it is exceeded).  main()
\* passes no max_turns, so the library's default applies; the model keeps the
\* limit small: three turns are what the longest path triage -> assumption ->
\* critic needs.
MaxTurns == 3

\* Number of agent-as-tool calls the triage agent makes for one question, in
\* one response or in several.
MaxConsults == 2

\* ------------------------------------------------------------------ agents

triage_agent == "triage_agent"
basic_agent == "basic_agent"
assumption_agent == "assumption_agent"
conceptual_agent == "conceptual_agent"
critic_agent == "critic_agent"

file_search_tool == "file_search_tool"
web_search_tool == "web_search_tool"

Agents == {triage_agent, basic_agent, assumption_agent, conceptual_agent, critic_agent}

Specialists == {basic_agent, assumption_agent, conceptual_agent}

HostedTools == {file_search_tool, web_search_tool}

\* tools=[...] of each Agent(...), with web_search_tool also given to basic_agent.
MutantBasicToolsWidened(a) ==
    CASE a = critic_agent -> {file_search_tool, web_search_tool}
      [] a = basic_agent -> {file_search_tool, web_search_tool}
      [] a = assumption_agent -> {file_search_tool, web_search_tool}
      [] a = conceptual_agent -> {}
      [] a = triage_agent -> {file_search_tool, web_search_tool}

\* tools=[...] of each Agent(...): the hosted search tools.
tools(a) ==
    CASE a = critic_agent -> {file_search_tool, web_search_tool}
      [] a = basic_agent -> {file_search_tool}
      [] a = assumption_agent -> {file_search_tool, web_search_tool}
      [] a = conceptual_agent -> {}
      [] a = triage_agent -> {file_search_tool, web_search_tool}

\* tools=[...] of triage_agent: the specialists wrapped by as_tool
\* (consult_basic_specialist, consult_assumption_specialist,
\* consult_conceptual_specialist).
as_tool(a) ==
    IF a = triage_agent
    THEN {basic_agent, assumption_agent, conceptual_agent}
    ELSE {}

\* handoffs=[...] of each Agent(...), with basic_agent given handoffs=[critic_agent].
MutantBasicHandsOffToCritic(a) ==
    CASE a = triage_agent -> {basic_agent, assumption_agent, conceptual_agent}
      [] a = assumption_agent -> {critic_agent}
      [] a = basic_agent -> {critic_agent}
      [] OTHER -> {}

\* handoffs=[...] of each Agent(...).
handoffs(a) ==
    CASE a = triage_agent -> {basic_agent, assumption_agent, conceptual_agent}
      [] a = assumption_agent -> {critic_agent}
      [] OTHER -> {}

\* -------------------------------------------------------------------- state

VARIABLES
    pc,         \* position of main()
    qi,         \* index of the question being processed (enumerate(questions, 1))
    stack,      \* the Runner.run calls in progress: the top-level run, then the nested runs
    trail,      \* history of the run main() started for the current question, in order
    subtrail,   \* history of each nested run in progress (dropped when it returns)
    invoked,    \* <<agent, depth>>: the model was invoked for the agent in a run of that depth
    toolCalls,  \* <<agent, tool>>: hosted tool calls executed for the current question
    result,     \* the RunResult bound at line 543
    verdict,    \* what the hand-off check of lines 549-554 printed
    printed,    \* number of final outputs printed so far (line 545)
    error       \* the exception that ended the program, if any

vars == <<pc, qi, stack, trail, subtrail, invoked, toolCalls, result, verdict, printed, error>>

NoResult == [last_agent |-> "none", keyword |-> FALSE, wellformed |-> TRUE]

Frame(agent) == [agent |-> agent, turn |-> 0]

\* The depth of the run in position k of the stack: 1 for the run main()
\* started, 2 for a run started by an agent-as-tool.
DepthOf(k) == IF k = 1 THEN 1 ELSE 2

\* The runs that can take a step: the nested runs while there are any (the
\* calling run waits for all its tool calls), the top-level run otherwise.
Running == IF Len(stack) = 1 THEN {1} ELSE 2..Len(stack)

Init ==
    /\ pc = "setup"
    /\ qi = 1
    /\ stack = <<>>
    /\ trail = <<>>
    /\ subtrail = <<>>
    /\ invoked = {}
    /\ toolCalls = {}
    /\ result = NoResult
    /\ verdict = "none"
    /\ printed = 0
    /\ error = "none"

\* ------------------------------------------------------------- Runner.run

\* One entry of a run's history: one model response of `agent`, processed.
\*   kind "final"    the response is a plain message: the run's final output
\*   kind "handoff"  the response calls transfer_to_<target>, one of the agent's handoffs
\*   kind "consult"  the response calls consult_<target>_specialist, an agent-as-tool
\*   kind "notfound" the response calls a name the agent was not given
\*   kind "toolfail" no response: the request with its hosted tool call failed
\*   kind "maxturns" no response: the turn limit was reached
Event(kind, agent, target) ==
    [kind |-> kind, agent |-> agent, target |-> target]

\* The hosted tool calls executed inside a response of the agent of run k.
Searches(k, T) == {<<stack[k].agent, t>> : t \in T}

Turn(f) == [f EXCEPT !.turn = f.turn + 1]

Remove(seq, k) == SubSeq(seq, 1, k - 1) \o SubSeq(seq, k + 1, Len(seq))

\* The agent-as-tool calls one response can carry, in the order of the
\* response: one or several different specialists.
ConsultCalls ==
    {ss \in UNION {[1..n -> Specialists] : n \in 1..Cardinality(Specialists)} :
        \A i, j \in 1..Len(ss) : i # j => ss[i] # ss[j]}

IsConsult(e) == e.kind = "consult"

\* The agent-as-tool calls made so far for the current question.
Consulted == Len(SelectSeq(trail, IsConsult))

\* The model is invoked for the current agent of run k; T are the hosted
\* tools its response used.
Respond(k, T) ==
    /\ pc = "run"
    /\ k \in Running
    /\ stack[k].turn < MaxTurns
    /\ T \subseteq tools(stack[k].agent)
    /\ invoked' = invoked \cup {<<stack[k].agent, DepthOf(k)>>}
    /\ toolCalls' = toolCalls \cup Searches(k, T)

\* The response leaves the entry e in the history of run k.
Record(k, e) ==
    IF k = 1
    THEN trail' = Append(trail, e) /\ subtrail' = subtrail
    ELSE trail' = trail /\ subtrail' = [subtrail EXCEPT ![k - 1] = Append(@, e)]

\* The nested run k ends (with an output or with an error): the agent-as-tool
\* returns a string to the calling run and the nested history is dropped.
ReturnToCaller(k) ==
    /\ stack' = Remove(stack, k)
    /\ subtrail' = Remove(subtrail, k - 1)
    /\ trail' = trail

\* The model answers with a plain message: the run ends.  The top-level run
\* returns to main(); a nested run returns its output to the calling agent.
\* No output type is set on any agent: the message is taken whatever its
\* shape (wf: it has the JSON shape the agent's instructions ask for).
RunnerFinal(k, T, kw, wf) ==
    /\ Respond(k, T)
    /\ IF k = 1
       THEN /\ trail' = Append(trail, Event("final", stack[k].agent, "none"))
            /\ subtrail' = subtrail
            /\ result' = [last_agent |-> stack[k].agent, keyword |-> kw, wellformed |-> wf]
            /\ stack' = <<>>
            /\ pc' = "print"
       ELSE /\ kw = FALSE
            /\ wf = TRUE
            /\ ReturnToCaller(k)
            /\ result' = result
            /\ pc' = pc
    /\ UNCHANGED <<qi, verdict, printed, error>>

\* A run in which the critic is called like a tool: the assumption agent stays
\* the current agent after its hand-off and gets the next turn.
MutantHandoffKeepsAgent(k, T, to) ==
    /\ to \in handoffs(stack[k].agent)
    /\ Respond(k, T)
    /\ Record(k, Event("handoff", stack[k].agent, to))
    /\ stack' = [stack EXCEPT ![k] = IF to = critic_agent
                                     THEN Turn(stack[k])
                                     ELSE [agent |-> to, turn |-> stack[k].turn + 1]]
    /\ UNCHANGED <<pc, qi, result, verdict, printed, error>>

\* The model calls transfer_to_<to>, and `to` is one of the agent's handoffs:
\* `to` becomes the current agent of the same run.
RunnerHandoff(k, T, to) ==
    /\ to \in handoffs(stack[k].agent)
    /\ Respond(k, T)
    /\ Record(k, Event("handoff", stack[k].agent, to))
    /\ stack' = [stack EXCEPT ![k] = [agent |-> to, turn |-> stack[k].turn + 1]]
    /\ UNCHANGED <<pc, qi, result, verdict, printed, error>>

\* The model calls consult_<s>_specialist for every s of ss, agent-as-tool
\* tools of the agent: the tool calls of one response are started together,
\* each a nested Runner.run starting at its specialist, and the calling run
\* goes on when all have returned.
RunnerConsult(k, T, ss) ==
    /\ \A i \in 1..Len(ss) : ss[i] \in as_tool(stack[k].agent)
    /\ Respond(k, T)
    /\ k = 1
    /\ Consulted + Len(ss) <= MaxConsults
    /\ trail' = trail \o [i \in 1..Len(ss) |-> Event("consult", stack[k].agent, ss[i])]
    /\ subtrail' = [i \in 1..Len(ss) |-> <<>>]
    /\ stack' = <<Turn(stack[k])>> \o [i \in 1..Len(ss) |-> Frame(ss[i])]
    /\ UNCHANGED <<pc, qi, result, verdict, printed, error>>

\* An exception leaves run k.  Raised by the top-level run it leaves main(),
\* which catches nothing; raised by a nested run it is turned into the tool's
\* result.
Raise(k, e, exc) ==
    IF k = 1
    THEN /\ trail' = Append(trail, e)
         /\ subtrail' = subtrail
         /\ stack' = <<>>
         /\ pc' = "crashed"
         /\ error' = exc
    ELSE /\ ReturnToCaller(k)
         /\ pc' = pc
         /\ error' = error

\* The model calls transfer_to_<to> and the agent has no such handoff: the run
\* raises ModelBehaviorError.
RunnerToolNotFound(k, T, to) ==
    /\ to \notin handoffs(stack[k].agent)
    /\ Respond(k, T)
    /\ Raise(k, Event("notfound", stack[k].agent, to), "ModelBehaviorError")
    /\ UNCHANGED <<qi, result, verdict, printed>>

\* The request that carries the hosted tool call t of the agent fails (the
\* search times out or is unavailable): the client raises and the run with it.
\* No tool call is completed and no response is processed.
RunnerToolFailure(k, t) ==
    /\ pc = "run"
    /\ k \in Running
    /\ stack[k].turn < MaxTurns
    /\ t \in tools(stack[k].agent)
    /\ invoked' = invoked \cup {<<stack[k].agent, DepthOf(k)>>}
    /\ Raise(k, Event("toolfail", stack[k].agent, t), "ToolFailure")
    /\ UNCHANGED <<qi, toolCalls, result, verdict, printed>>

\* Another turn is due and the run has used its turns: MaxTurnsExceeded.
RunnerMaxTurns(k) ==
    /\ pc = "run"
    /\ k \in Running
    /\ stack[k].turn >= MaxTurns
    /\ Raise(k, Event("maxturns", stack[k].agent, "none"), "MaxTurnsExceeded")
    /\ UNCHANGED <<qi, invoked, toolCalls, result, verdict, printed>>

\* ------------------------------------------------------------------- main

\* Lines 509-518: the vector store is created and the context file opened and
\* uploaded; either can raise.
Setup ==
    /\ pc = "setup"
    /\ \/ /\ pc' = "loop"
          /\ error' = error
       \/ /\ pc' = "crashed"
          /\ error' = "ContextError"
    /\ UNCHANGED <<qi, stack, trail, subtrail, invoked, toolCalls, result, verdict, printed>>

\* The loop starting the first question at the triage agent and the later
\* ones at the assumption agent.
MutantStartRunFromAssumption ==
    /\ pc = "loop"
    /\ qi <= NumQuestions
    /\ pc' = "run"
    /\ stack' = <<Frame(IF qi = 1 THEN triage_agent ELSE assumption_agent)>>
    /\ trail' = <<>>
    /\ subtrail' = <<>>
    /\ invoked' = {}
    /\ toolCalls' = {}
    /\ result' = NoResult
    /\ verdict' = "none"
    /\ UNCHANGED <<qi, printed, error>>

\* Lines 534-543: the next question is taken and Runner.run starts at the
\* triage agent with a fresh history.  The name result is rebound only when the
\* run returns; nothing reads the previous value in between, so it is cleared
\* here together with the printed verdict.
StartRun ==
    /\ pc = "loop"
    /\ qi <= NumQuestions
    /\ pc' = "run"
    /\ stack' = <<Frame(triage_agent)>>
    /\ trail' = <<>>
    /\ subtrail' = <<>>
    /\ invoked' = {}
    /\ toolCalls' = {}
    /\ result' = NoResult
    /\ verdict' = "none"
    /\ UNCHANGED <<qi, printed, error>>

\* Line 545: print(result.final_output).
PrintOutput ==
    /\ pc = "print"
    /\ printed' = printed + 1
    /\ pc' = "check"
    /\ UNCHANGED <<qi, stack, trail, subtrail, invoked, toolCalls, result, verdict, error>>

\* The hand-off check, writing what it found into the finished run's history.
MutantHandoffCheckAppends ==
    /\ pc = "check"
    /\ verdict' = IF result.keyword THEN "HANDOFF CONFIRMED" ELSE "No handoff detected"
    /\ trail' = Append(trail, Event("check", result.last_agent, "none"))
    /\ pc' = "usage"
    /\ UNCHANGED <<qi, stack, subtrail, invoked, toolCalls, result, printed, error>>

\* Lines 549-554: the hand-off check looks for 'critique' or 'review' in the
\* final output.
HandoffCheck ==
    /\ pc = "check"
    /\ verdict' = IF result.keyword THEN "HANDOFF CONFIRMED" ELSE "No handoff detected"
    /\ pc' = "usage"
    /\ UNCHANGED <<qi, stack, trail, subtrail, invoked, toolCalls, result, printed, error>>

\* Lines 557-564: the optional attributes are printed when present; the loop
\* goes to the next question.
PrintUsage ==
    /\ pc = "usage"
    /\ qi' = qi + 1
    /\ pc' = "loop"
    /\ UNCHANGED <<stack, trail, subtrail, invoked, toolCalls, result, verdict, printed, error>>

\* The list is exhausted: main() returns.
Exit ==
    /\ pc = "loop"
    /\ qi > NumQuestions
    /\ pc' = "exit"
    /\ UNCHANGED <<qi, stack, trail, subtrail, invoked, toolCalls, result, verdict, printed, error>>

Next ==
    \/ Setup
    \/ StartRun
    \/ \E k \in Running : \E T \in SUBSET tools(stack[k].agent), kw \in BOOLEAN, wf \in BOOLEAN :
          RunnerFinal(k, T, kw, wf)
    \/ \E k \in Running : \E T \in SUBSET tools(stack[k].agent), to \in Agents :
          RunnerHandoff(k, T, to)
    \/ \E k \in Running : \E T \in SUBSET tools(stack[k].agent), ss \in ConsultCalls :
          RunnerConsult(k, T, ss)
    \/ \E k \in Running : \E T \in SUBSET tools(stack[k].agent), to \in Agents :
          RunnerToolNotFound(k, T, to)
    \/ \E k \in Running : \E t \in tools(stack[k].agent) : RunnerToolFailure(k, t)
    \/ \E k \in Running : RunnerMaxTurns(k)
    \/ PrintOutput
    \/ HandoffCheck
    \/ PrintUsage
    \/ Exit

Spec == Init /\ [][Next]_vars

\* ------------------------------------------------------- derived notions

\* Runner.run has returned for the current question: main() holds its result.
Terminal == pc \in {"print", "check", "usage"}

IsHandoff(e) == e.kind = "handoff"

\* The hand-offs recorded in a history.
HandoffEvents(tr) == SelectSeq(tr, IsHandoff)

IsSelection(e) == e.agent = triage_agent /\ e.kind \in {"handoff", "consult"}

\* The specialists the triage agent selected (by hand-off or by consult), in order.
Selections == SelectSeq(trail, IsSelection)

\* The run's classification: the specialist the triage agent selected last.
Category ==
    IF Selections = <<>> THEN "none" ELSE Selections[Len(Selections)].target

\* The specialists the model was invoked for, in any run of the current question.
InvokedSpecialists == {a \in Specialists : \E d \in 1..2 : <<a, d>> \in invoked}

\* The critic's outputs in the history of the run main() started.
IsCriticOutput(e) == e.kind = "final" /\ e.agent = critic_agent

CriticReports == SelectSeq(trail, IsCriticOutput)

\* The logical position of a responder: triage, then specialist, then critic.
Rank(a) ==
    CASE a = triage_agent -> 0
      [] a \in Specialists -> 1
      [] a = critic_agent -> 2

\* The model is invoked for the current agent of run k in this step and its
\* response is processed.
TakesTurn(k) ==
    /\ pc = "run"
    /\ k \in Running
    /\ stack[k].turn < MaxTurns
    /\ IF k = 1
       THEN stack' # stack
       ELSE \/ stack' = Remove(stack, k)
            \/ Len(stack') = Len(stack) /\ stack'[k] # stack[k]

\* ----------------------------------------------------------------- claims

\* C1: every run classified Assumption that is Terminal has a hand-off from
\* the assumption agent to the critic agent and exactly one critic output in
\* its history, and its final output is not the assumption agent's.
C1_MandatoryReview ==
    (Terminal /\ Category = assumption_agent) =>
        /\ \E i \in 1..Len(trail) :
              /\ trail[i].kind = "handoff"
              /\ trail[i].agent = assumption_agent
              /\ trail[i].target = critic_agent
        /\ Len(CriticReports) = 1
        /\ result.last_agent # assumption_agent

\* C2: a final-shaped output of the assumption agent without a hand-off is not
\* accepted as the run's result: the run stays with the assumption agent, which
\* is invoked again.
C2_FinalWithoutHandoffRejected ==
    [][(/\ TakesTurn(1)
        /\ stack[1].agent = assumption_agent
        /\ trail' = Append(trail, Event("final", assumption_agent, "none")))
       => (/\ pc' = "run"
           /\ Len(stack') = 1
           /\ stack'[1].agent = assumption_agent)]_vars

\* The allowance of each responder as the specification's matrix gives it.
Allowance(a) ==
    CASE a = basic_agent -> {file_search_tool}
      [] a = assumption_agent -> {file_search_tool, web_search_tool}
      [] a = critic_agent -> {file_search_tool, web_search_tool}
      [] a = conceptual_agent -> {}
      [] OTHER -> HostedTools

C4_ZeroHandoffs ==
    (Terminal /\ Category \in {basic_agent, conceptual_agent}) =>
        Len(HandoffEvents(trail)) = 0

\* C4, amended: in a run classified Basic or Conceptual the only hand-off the
\* run records is the one by which the triage agent delegated to that
\* specialist (at most one), and the basic and conceptual agents never emit a
\* hand-off in any run.
C4_OnlyDelegatingHandoff ==
    /\ Category \in {basic_agent, conceptual_agent} =>
          /\ Len(HandoffEvents(trail)) <= 1
          /\ \A i \in 1..Len(trail) :
                trail[i].kind = "handoff" =>
                    trail[i].agent = triage_agent /\ trail[i].target = Category
    /\ \A i \in 1..Len(trail) :
          trail[i].kind = "handoff" => trail[i].agent \notin {basic_agent, conceptual_agent}
    /\ \A j \in 1..Len(subtrail) : \A i \in 1..Len(subtrail[j]) :
          subtrail[j][i].kind = "handoff" =>
              subtrail[j][i].agent \notin {basic_agent, conceptual_agent}

\* A finished run that the triage agent delegated to the basic agent by
\* hand-off and that the basic agent answered.
C4_Witness ==
    /\ Terminal
    /\ Category = basic_agent
    /\ result.last_agent = basic_agent
    /\ Len(HandoffEvents(trail)) = 1

\* C5: a Terminal run has exactly one category and exactly one specialist was
\* invoked for it.
C5_OneCategoryOneSpecialist ==
    Terminal =>
        /\ Category \in Specialists
        /\ InvokedSpecialists = {Category}

\* C6: the final output of a Terminal run is never the triage agent's.
C6_TriageNeverFinal ==
    Terminal => result.last_agent # triage_agent

\* C7: the critic becomes the current agent only by a hand-off of the
\* assumption agent, and in a run classified Basic or Conceptual the critic is
\* never invoked.
C7_CriticOnlyAfterAssumption ==
    /\ [](Category \in {basic_agent, conceptual_agent} =>
            \A d \in 1..2 : <<critic_agent, d>> \notin invoked)
    /\ [][\A k \in 1..Len(stack) :
            (/\ Len(stack') = Len(stack)
             /\ stack'[k].agent = critic_agent
             /\ stack[k].agent # critic_agent)
            => stack[k].agent = assumption_agent]_vars

\* C8: once Runner.run has returned, the run's history, tool calls and
\* result never change while main() works on that question.
C8_TerminalAbsorbing ==
    [][Terminal =>
        /\ trail' = trail
        /\ subtrail' = subtrail
        /\ invoked' = invoked
        /\ toolCalls' = toolCalls
        /\ result' = result
        /\ stack' = stack
        /\ pc' # "run"]_vars

\* The second question's run has finished and main() went through its checks.
C8_Witness ==
    /\ pc = "usage"
    /\ qi = 2
    /\ Len(trail) >= 2
    /\ verdict # "none"

\* C9: no responder takes a turn after a logically later responder has taken
\* one (triage, then specialist, then critic).
C9_LogicalTurnOrder ==
    [][\A k \in 1..Len(stack) :
          TakesTurn(k) => \A x \in invoked : Rank(x[1]) <= Rank(stack[k].agent)]_vars

\* C10: a hand-off to a target outside the sender's hand-offs leaves the run
\* where it is (same current agent, still running) so that the turn is retried.
C10_IllegalHandoffRetried ==
    [][(/\ TakesTurn(1)
        /\ \E to \in Agents :
              /\ to \notin handoffs(stack[1].agent)
              /\ trail' = Append(trail, Event("notfound", stack[1].agent, to)))
       => (/\ pc' = "run"
           /\ Len(stack') = 1
           /\ stack'[1].agent = stack[1].agent)]_vars

C12_SingleActiveResponder ==
    pc = "run" => Cardinality(Running) <= 1

\* C13: a failing tool call never ends the program: the run goes on to
\* Terminal.
C13_ToolFailureAbsorbed ==
    ~(pc = "crashed" /\ error = "ToolFailure")

\* C14: no Terminal run has a malformed output as its final answer.
C14_MalformedNeverAccepted ==
    Terminal => result.wellformed

\* C15: a triage turn that ends without selecting a specialist is not
\* accepted: the run stays with the triage agent, which is invoked again.
C15_UnresolvedTriageRetried ==
    [][(/\ TakesTurn(1)
        /\ stack[1].agent = triage_agent
        /\ Selections = <<>>
        /\ trail' = Append(trail, Event("final", triage_agent, "none")))
       => (/\ pc' = "run"
           /\ Len(stack') = 1
           /\ stack'[1].agent = triage_agent)]_vars

\* C16: the triage agent's delegation of a tactical question (to the basic or
\* the assumption agent) takes effect only if the triage agent has searched
\* the documents, at the latest in the delegating response.
C16_TriageSearchesBeforeTactical ==
    [][(/\ TakesTurn(1)
        /\ stack[1].agent = triage_agent
        /\ Len(stack') = 1
        /\ stack'[1].agent \in {basic_agent, assumption_agent})
       => <<triage_agent, file_search_tool>> \in toolCalls']_vars

\* C17: when the program has ended, every question of the list has had its
\* run: a failed run is not followed by questions that were never run.
C17_OneResultPerQuestion ==
    /\ (pc = "crashed" /\ error # "ContextError") => qi = NumQuestions
    /\ pc = "exit" => printed = NumQuestions

\* C18: an unresolvable context never ends the program with an unhandled error.
C18_ContextErrorHandled ==
    ~(pc = "crashed" /\ error = "ContextError")

\* The tool calls of the agents that ran in the run whose result main() holds.
RecordedToolCalls == {c \in toolCalls : <<c[1], 1>> \in invoked}

\* C19: at Terminal the run's record holds every tool call and every hand-off
\* made for the question.
C19_AuditTrailComplete ==
    Terminal =>
        /\ RecordedToolCalls = toolCalls
        /\ <<critic_agent, 2>> \in invoked =>
              \E i \in 1..Len(trail) :
                  trail[i].kind = "handoff" /\ trail[i].target = critic_agent

HandoffToCritic ==
    \E i \in 1..Len(trail) :
        trail[i].kind = "handoff" /\ trail[i].target = critic_agent

\* C21: the hand-off check prints HANDOFF CONFIRMED exactly for the runs in
\* which a hand-off to the critic occurred, and No handoff detected for the
\* others.
C21_HandoffCheckExact ==
    verdict # "none" => (verdict = "HANDOFF CONFIRMED" <=> HandoffToCritic)

\* C22: a run that has started ends in a terminal state only: with its turns
\* taken along the acyclic hand-off graph, it leaves the agent loop by
\* returning a final output to main().
C22_RunEndsTerminal ==
    [][pc = "run" => pc' \in {"run", "print"}]_vars

=============================================================================
